---- MODULE Spec2Model ----
(***************************************************************************)
(* State-machine model of the chess clock page                             *)
(* (packages/app/src/pages/index.tsx).                                     *)
(*                                                                         *)
(* The page keeps one ClockState record (useState), the handle of the      *)
(* interval started by the last press (useState) and the per-side          *)
(* Bronstein counters (useRef).                                            *)
(* Event handlers and interval callbacks run to completion one at a time   *)
(* on the single JavaScript thread, so every handler is one atomic action. *)
(* The browser's table of live intervals is part of the state: a tick can  *)
(* fire for every interval that has not been cleared, whatever the page    *)
(* believes about it.                                                      *)
(*                                                                         *)
(* The visibility of the settings modal (showModal) is not part of the     *)
(* model: opening and submitting the modal change nothing else, so the     *)
(* inputs of the modal are enabled in every state.                         *)
(***************************************************************************)
EXTENDS Integers, Sequences, FiniteSets, TLC

VARIABLES
    clock,       \* the ClockState record                           (line 60)
    timer,       \* handle stored by setTimer, 0 models null        (line 61)
    delaySpent,  \* delaySpent.current, per side                    (line 65)
    intervals,   \* live browser intervals: [id, timer], where timer is the
                 \* value of `timer` captured by the callback's closure
    nextHandle,  \* last handle returned by setInterval
    edits,       \* settings edits made after the first press
    turn,        \* history of the turn in progress: the remaining time of
                 \* the side on move when the last press started its turn
                 \* (NoStart once anything but a tick has happened since),
                 \* and the ticks that found a side current since that press
                 \* (counted up to MaxTicks)
    paused,      \* history of the last pause: the remaining times, the move
                 \* count and the side on move when the clock was paused, and
                 \* whether the step just taken resumed from that pause
                 \* (NoPause once anything else has happened)
    game,        \* history of the game in progress: the remaining times and
                 \* increments the clock had at the first press since the
                 \* last reset (NoGame before that press, EditedGame once a
                 \* setting has been edited during the game)
    display      \* a remaining time and the text rendered for it  (line 80)

vars == <<clock, timer, delaySpent, intervals, nextHandle, edits, turn,
          paused, game, display>>

(* ---------------- Bounds ---------------- *)

MaxTicks == 1        \* ticks that find a side current, per press
MaxTimers == 2       \* presses (setInterval calls), per behaviour
MaxEdits == 0        \* settings edits after the first press, per behaviour
MaxFormatUnits == 200  \* remaining times given to format: 0 .. 200 tick units

\* The values typed into the number inputs of the settings modal.
MinutesInputs == {0, 1}
IncrementInputs == {0, 1}
DelayInputs == {0, 1}

(* ---------------- Utils ---------------- *)

ONE_SECOND == 1000
ONE_MINUTE == 60 * ONE_SECOND
ONE_UNIT == 10

(* ---------------- Types ---------------- *)

ChessClockSide == {"white", "black"}
NoSide == ""
DelayType == {"none", "bronstein", "fischer"}

Other(side) == IF side = "white" THEN "black" ELSE "white"

(* ---------------- Presets ---------------- *)

\* A time control token is a string; it is modelled as the sequence of its
\* characters so that parsing it is a computation.
PRESETS ==
    [Bullet |-> << <<"1","+","0">>, <<"1","+","1">>, <<"2","+","1">> >>,
     Blitz  |-> << <<"3","+","0">>, <<"3","+","2">>, <<"5","+","0">>,
                   <<"5","+","2">>, <<"5","+","5">> >>,
     Rapid  |-> << <<"1","0","+","0">>, <<"1","0","+","5">>, <<"1","5","+","0">>,
                   <<"1","5","+","1","0">>, <<"3","0","+","0">> >>]

\* The preset buttons that are pressed.
PresetInputs == {PRESETS.Bullet[1]}

(* ---------------- Helpers ---------------- *)

DigitChars == <<"0","1","2","3","4","5","6","7","8","9">>

\* The value of each decimal digit character.
DigitValues == [c \in {DigitChars[i] : i \in 1..10} |->
                    (CHOOSE i \in 1..10 : DigitChars[i] = c) - 1]

IsDigit(c) == c \in DOMAIN DigitValues

DigitValue(c) == DigitValues[c]

\* Number.parseInt on a string without sign or leading blanks: the value of
\* the longest prefix of decimal digits, NaN when that prefix is empty.
RECURSIVE ParseDigits(_, _)
ParseDigits(s, acc) ==
    IF s = <<>> \/ ~IsDigit(Head(s)) THEN acc
    ELSE ParseDigits(Tail(s), 10 * acc + DigitValue(Head(s)))

parseInt(s) ==
    IF s = <<>> \/ ~IsDigit(Head(s)) THEN "NaN" ELSE ParseDigits(s, 0)

\* String.prototype.split with a one-character separator.
RECURSIVE SplitAcc(_, _, _)
SplitAcc(s, sep, cur) ==
    IF s = <<>> THEN <<cur>>
    ELSE IF Head(s) = sep THEN <<cur>> \o SplitAcc(Tail(s), sep, <<>>)
    ELSE SplitAcc(Tail(s), sep, Append(cur, Head(s)))

split(s, sep) == SplitAcc(s, sep, <<>>)

convert(tc) ==
    LET parts == split(tc, "+")
        min == parts[1]
        inc == parts[2]
    IN  [milliseconds |-> parseInt(min) * ONE_MINUTE,
         increment |-> parseInt(inc)]

(* ---------------- Display ---------------- *)

\* The decimal string of a non-negative integer (template literal, toFixed).
RECURSIVE numberToString(_)
numberToString(n) ==
    IF n < 10 THEN <<DigitChars[n + 1]>>
    ELSE Append(numberToString(n \div 10), DigitChars[(n % 10) + 1])

addZero(n) == IF n < 10 THEN <<"0">> \o numberToString(n) ELSE numberToString(n)

\* Number.parseFloat on a string of decimal digits.
parseFloat(s) == ParseDigits(s, 0)

\* The remaining times given to format: the first MaxFormatUnits tick units,
\* the last five tick units of a minute, and ten minutes.
FormatInputs ==
    {i * ONE_UNIT : i \in 0..MaxFormatUnits}
        \cup {ONE_MINUTE - i * ONE_UNIT : i \in 1..5}
        \cup {10 * ONE_MINUTE}

\* (ms % ONE_MINUTE) / 1000 is a binary double. For a remaining time that is
\* a multiple of ONE_UNIT it is the double nearest to h/100 for the integer
\* h = (ms % ONE_MINUTE) / ONE_UNIT. When h ends in 5 that double is h/100
\* itself only if h/100 is a multiple of 1/4; otherwise it lies just below
\* or just above h/100. These are the h ending in 5, among those of
\* FormatInputs and up to 395, whose double lies below h/100.
DoubleBelowHalf ==
    {15, 35, 85, 95, 115, 145, 165, 195, 205, 215, 255, 265, 305, 315, 355, 365}

\* Number.prototype.toFixed(1) of the double nearest to h/100: the integer n
\* for which n/10 is closest to the double, the larger one of two, written
\* with one digit after the point.
toFixed1(h) ==
    LET r == h % 10
        down == r < 5 \/ (r = 5 /\ h \in DoubleBelowHalf)
        n == IF down THEN h \div 10 ELSE h \div 10 + 1
    IN  numberToString(n \div 10) \o <<".">> \o numberToString(n % 10)

\* format, for a remaining time that is a multiple of ONE_UNIT.
format(ms) ==
    LET m == ms \div ONE_MINUTE
        remain == toFixed1((ms % ONE_MINUTE) \div ONE_UNIT)
        parts == split(remain, ".")
        sec == parts[1]
        d == parts[2]
    IN  addZero(m) \o <<":">> \o addZero(parseFloat(sec)) \o <<".">> \o d

(* ---------------- Initial state ---------------- *)

initial ==
    [running |-> FALSE,
     current |-> NoSide,
     timeControl |-> [white |-> <<"1","0","+","0">>, black |-> <<"1","0","+","0">>],
     milliseconds |-> [white |-> 10 * ONE_MINUTE, black |-> 10 * ONE_MINUTE],
     increment |-> [white |-> 0, black |-> 0],
     delay |-> 0,
     delayType |-> "none",
     moves |-> 0,
     timeout |-> NoSide]

NoStart == -1
NoTurn == [start |-> NoStart, ticks |-> 0]

NoPause ==
    [milliseconds |-> [white |-> 0, black |-> 0], moves |-> 0,
     current |-> NoSide, resumed |-> FALSE]

NoGame ==
    [played |-> FALSE, edited |-> FALSE,
     milliseconds |-> [white |-> 0, black |-> 0],
     increment |-> [white |-> 0, black |-> 0]]

EditedGame == [NoGame EXCEPT !.played = TRUE, !.edited = TRUE]

NoDisplay == [ms |-> 0, text |-> <<>>]

Init ==
    /\ clock = initial
    /\ timer = 0
    /\ delaySpent = [white |-> 0, black |-> 0]
    /\ intervals = {}
    /\ nextHandle = 0
    /\ edits = 0
    /\ turn = NoTurn
    /\ paused = NoPause
    /\ game = NoGame
    /\ display = NoDisplay

(* ---------------- Clock Logic ---------------- *)

Min(a, b) == IF a < b THEN a ELSE b

\* startTurn: the value of delaySpent.current after the call.
startTurn(ds, side) == [ds EXCEPT ![side] = 0]

\* The refund computed by endTurn's updater.
RefundUnscaled(p, ds, side) ==
    LET r0 == 0
        r1 == IF p.delayType = "bronstein"
              THEN Min(ds[side], p.delay * ONE_SECOND) ELSE r0
    IN  IF p.delayType = "fischer" THEN p.increment[side] ELSE r1

Refund(p, ds, side) ==
    LET r0 == 0
        r1 == IF p.delayType = "bronstein"
              THEN Min(ds[side], p.delay * ONE_SECOND) ELSE r0
    IN  IF p.delayType = "fischer" THEN p.increment[side] * ONE_SECOND ELSE r1

\* endTurn: the updater passed to setClock.
endTurnTwice(p, ds, side) ==
    [p EXCEPT !.milliseconds[side] = p.milliseconds[side] + 2 * Refund(p, ds, side),
              !.moves = p.moves + (IF side = "black" THEN 2 ELSE 0)]

endTurn(p, ds, side) ==
    [p EXCEPT !.milliseconds[side] = p.milliseconds[side] + Refund(p, ds, side),
              !.moves = p.moves + (IF side = "black" THEN 1 ELSE 0)]

\* clearInterval on the browser's table of intervals.
clearInterval(ivs, h) == {i \in ivs : i.id # h}

\* The timer handling of a press: clearInterval(timer), setInterval,
\* setTimer(t), and the cleanup of the effect on [timer], which runs with the
\* previous handle when the handle changes.
restartTimerNoClear(ivs, tmr, t) == ivs \cup {[id |-> t, timer |-> tmr]}

restartTimer(ivs, tmr, t) ==
    clearInterval(clearInterval(ivs, tmr), tmr) \cup {[id |-> t, timer |-> tmr]}

\* The updater of the press itself.
switchTo(p, other) == [p EXCEPT !.current = other, !.running = TRUE]

click(side) ==
    LET other == Other(side)
        p1 == IF clock.current # NoSide THEN endTurn(clock, delaySpent, side)
              ELSE clock
        p2 == switchTo(p1, other)
        t == nextHandle + 1
    IN  /\ nextHandle < MaxTimers
        /\ clock' = p2
        /\ delaySpent' = startTurn(delaySpent, other)
        /\ intervals' = restartTimer(intervals, timer, t)
        /\ timer' = t
        /\ nextHandle' = t
        /\ turn' = [start |-> p2.milliseconds[other], ticks |-> 0]
        /\ paused' = IF /\ paused.current # NoSide
                        /\ ~paused.resumed
                        /\ side = Other(clock.current)
                     THEN [paused EXCEPT !.resumed = TRUE]
                     ELSE NoPause
        /\ game' = IF game.played THEN game
                   ELSE [played |-> TRUE, edited |-> FALSE,
                         milliseconds |-> clock.milliseconds,
                         increment |-> clock.increment]
        /\ UNCHANGED <<edits, display>>

(* The interval callback *)

\* The Bronstein delay countdown applies to this tick.
inDelay(p, ds) ==
    /\ p.delayType = "bronstein"
    /\ ds[p.current] < p.delay * ONE_SECOND

deductionWholeTurn(p, ds) ==
    IF p.delayType = "bronstein" THEN 0 ELSE ONE_UNIT

deduction(p, ds) == IF inDelay(p, ds) THEN 0 ELSE ONE_UNIT

\* The tick takes the timeout branch (newMs <= 0).
timesOutStrict(p, ds) ==
    /\ p.current # NoSide
    /\ p.milliseconds[p.current] - deduction(p, ds) < 0

timesOut(p, ds) ==
    /\ p.current # NoSide
    /\ p.milliseconds[p.current] - deduction(p, ds) <= 0

\* The updater passed to setClock by the interval callback.
tickClockNoClamp(p, ds) ==
    IF p.current = NoSide THEN p
    ELSE LET newMs == p.milliseconds[p.current] - deduction(p, ds)
         IN  IF timesOut(p, ds)
             THEN [p EXCEPT !.milliseconds[p.current] = newMs,
                            !.running = FALSE,
                            !.current = NoSide,
                            !.timeout = p.current]
             ELSE [p EXCEPT !.milliseconds[p.current] = newMs]

tickClockStillRunning(p, ds) ==
    IF p.current = NoSide THEN p
    ELSE LET newMs == p.milliseconds[p.current] - deduction(p, ds)
         IN  IF timesOut(p, ds)
             THEN [p EXCEPT !.milliseconds[p.current] = 0,
                            !.current = NoSide,
                            !.timeout = p.current]
             ELSE [p EXCEPT !.milliseconds[p.current] = newMs]

tickClock(p, ds) ==
    IF p.current = NoSide THEN p
    ELSE LET newMs == p.milliseconds[p.current] - deduction(p, ds)
         IN  IF timesOut(p, ds)
             THEN [p EXCEPT !.milliseconds[p.current] = 0,
                            !.running = FALSE,
                            !.current = NoSide,
                            !.timeout = p.current]
             ELSE [p EXCEPT !.milliseconds[p.current] = newMs]

\* The updater's write to delaySpent.current.
tickDelaySpentNoCap(p, ds) ==
    IF p.current # NoSide /\ p.delayType = "bronstein"
    THEN [ds EXCEPT ![p.current] = ds[p.current] + ONE_UNIT]
    ELSE ds

tickDelaySpent(p, ds) ==
    IF p.current # NoSide /\ inDelay(p, ds)
    THEN [ds EXCEPT ![p.current] = ds[p.current] + ONE_UNIT]
    ELSE ds

\* The updater's clearInterval(timer): `timer` is the value the callback's
\* closure captured when the press created the interval.
tickIntervals(p, ds, ivs, i) ==
    IF timesOut(p, ds) THEN clearInterval(ivs, i.timer) ELSE ivs

IntervalCallback(i) ==
    /\ clock' = tickClock(clock, delaySpent)
    /\ delaySpent' = tickDelaySpent(clock, delaySpent)
    /\ intervals' = tickIntervals(clock, delaySpent, intervals, i)
    /\ turn' = IF timesOut(clock, delaySpent) THEN NoTurn
               ELSE IF clock.current # NoSide
                    THEN [turn EXCEPT !.ticks = Min(turn.ticks + 1, MaxTicks)]
                    ELSE turn
    /\ paused' = NoPause
    /\ UNCHANGED <<timer, nextHandle, edits, game, display>>

Tick ==
    \E i \in intervals :
        /\ clock.current = NoSide \/ turn.ticks < MaxTicks
        /\ IntervalCallback(i)

(* Pause and reset *)

pauseNoClear ==
    /\ intervals' = intervals
    /\ clock' = [clock EXCEPT !.running = FALSE]
    /\ turn' = [turn EXCEPT !.start = NoStart]
    /\ paused' = [milliseconds |-> clock.milliseconds, moves |-> clock.moves,
                  current |-> clock.current, resumed |-> FALSE]
    /\ UNCHANGED <<timer, delaySpent, nextHandle, edits, game, display>>

pause ==
    /\ intervals' = clearInterval(intervals, timer)
    /\ clock' = [clock EXCEPT !.running = FALSE]
    /\ turn' = [turn EXCEPT !.start = NoStart]
    /\ paused' = [milliseconds |-> clock.milliseconds, moves |-> clock.moves,
                  current |-> clock.current, resumed |-> FALSE]
    /\ UNCHANGED <<timer, delaySpent, nextHandle, edits, game, display>>

\* The updater passed to setClock by reset.
resetClockToInitial(p) == initial

resetClock(p) ==
    LET w == convert(p.timeControl.white)
        b == convert(p.timeControl.black)
    IN  [initial EXCEPT !.timeControl = p.timeControl,
                        !.milliseconds = [white |-> w.milliseconds,
                                          black |-> b.milliseconds],
                        !.increment = [white |-> w.increment,
                                       black |-> b.increment],
                        !.delay = p.delay,
                        !.delayType = p.delayType]

reset ==
    /\ UNCHANGED <<timer, delaySpent, intervals, nextHandle, edits, display>>
    /\ turn' = NoTurn
    /\ paused' = NoPause
    /\ game' = NoGame
    /\ clock' = resetClock(clock)

(* ---------------- UI ---------------- *)

\* The two clock buttons.
ClickButton == \E side \in ChessClockSide : click(side)

\* The pause / resume / reset button of the bottom controls.
PauseResumeButtonSameSide ==
    IF clock.timeout # NoSide THEN reset
    ELSE IF clock.running THEN pause
    ELSE /\ clock.current # NoSide
         /\ click(clock.current)

PauseResumeButton ==
    IF clock.timeout # NoSide THEN reset
    ELSE IF clock.running THEN pause
    ELSE /\ clock.current # NoSide
         /\ click(Other(clock.current))

ResetButton == reset

\* An input of the settings modal: setClock with the new record.
Configure(p) ==
    /\ p # clock
    /\ nextHandle = 0 \/ edits < MaxEdits
    /\ edits' = IF nextHandle = 0 THEN edits ELSE edits + 1
    /\ clock' = p
    /\ turn' = [turn EXCEPT !.start = NoStart]
    /\ paused' = NoPause
    /\ game' = IF game.played THEN EditedGame ELSE game
    /\ UNCHANGED <<timer, delaySpent, intervals, nextHandle, display>>

selectPreset(p, tc) ==
    LET c == convert(tc)
    IN  [p EXCEPT !.timeControl = [white |-> tc, black |-> tc],
                  !.milliseconds = [white |-> c.milliseconds,
                                    black |-> c.milliseconds],
                  !.increment = [white |-> c.increment, black |-> c.increment]]

PresetButton == \E tc \in PresetInputs : Configure(selectPreset(clock, tc))

MinutesInput ==
    \E side \in ChessClockSide, m \in MinutesInputs :
        Configure([clock EXCEPT !.milliseconds[side] = m * ONE_MINUTE])

IncrementInput ==
    \E side \in ChessClockSide, v \in IncrementInputs :
        Configure([clock EXCEPT !.increment[side] = v])

DelayTypeSelect ==
    \E dt \in DelayType : Configure([clock EXCEPT !.delayType = dt])

DelayInput ==
    \E d \in DelayInputs : Configure([clock EXCEPT !.delay = d])

Next ==
    \/ ClickButton
    \/ Tick
    \/ PauseResumeButton
    \/ ResetButton
    \/ PresetButton
    \/ MinutesInput
    \/ IncrementInput
    \/ DelayTypeSelect
    \/ DelayInput

Spec == Init /\ [][Next]_vars

TypeOK ==
    /\ clock.running \in BOOLEAN
    /\ clock.current \in ChessClockSide \cup {NoSide}
    /\ clock.timeout \in ChessClockSide \cup {NoSide}
    /\ clock.delayType \in DelayType
    /\ clock.moves \in Nat
    /\ timer \in 0..MaxTimers
    /\ nextHandle \in 0..MaxTimers
    /\ turn.ticks \in 0..MaxTicks

(* ---------------- Properties ---------------- *)

\* The button of the bottom controls when it pauses or resumes.
PauseOrResume == clock.timeout = NoSide /\ PauseResumeButton

\* C1: once a side has timed out, a press, a pause/resume or a tick leaves
\* both remaining times unchanged, running false and no side current.
C1_TimeoutIsTerminal ==
    [][(clock.timeout # NoSide /\ (ClickButton \/ Tick \/ PauseOrResume))
       => /\ clock'.milliseconds = clock.milliseconds
          /\ clock'.running = FALSE
          /\ clock'.current = NoSide]_vars

\* C2: under Bronstein, a turn of S that started with remaining time R and
\* delay-spent 0, saw only k ticks with 10*k <= delay*1000 and ends with the
\* press of S, leaves S with exactly R.
C2_BronsteinNetEffect ==
    [][\A S \in ChessClockSide :
        (/\ clock.current = S
         /\ clock.delayType = "bronstein"
         /\ turn.start # NoStart
         /\ turn.ticks * ONE_UNIT <= clock.delay * ONE_SECOND
         /\ click(S))
        => clock'.milliseconds[S] = turn.start]_vars

\* C3: under Fischer, the press of the side on move adds exactly
\* increment*1000 ms to that side, whatever the turn consumed, and leaves
\* the other side's remaining time unchanged.
C3_FischerIncrement ==
    [][\A S \in ChessClockSide :
        (clock.current = S /\ clock.delayType = "fischer" /\ click(S))
        => /\ clock'.milliseconds[S] =
                clock.milliseconds[S] + clock.increment[S] * ONE_SECOND
           /\ clock'.milliseconds[Other(S)] = clock.milliseconds[Other(S)]]_vars

\* A Fischer turn of black that consumed a tick has been completed.
C3_Witness ==
    /\ clock.delayType = "fischer"
    /\ clock.increment.black = 1
    /\ clock.current = "white"
    /\ clock.moves = 1
    /\ clock.milliseconds.black = ONE_MINUTE - ONE_UNIT + ONE_SECOND

\* The end-of-turn adjustment of a side, as section 4.3 of the specification
\* states it.
Adjustment(S) ==
    IF clock.delayType = "bronstein"
    THEN (IF delaySpent[S] <= clock.delay * ONE_SECOND
          THEN delaySpent[S] ELSE clock.delay * ONE_SECOND)
    ELSE IF clock.delayType = "fischer" THEN clock.increment[S] * ONE_SECOND
    ELSE 0

\* C4: when B is on move and running and B presses, B's adjustment is
\* applied once, the other side becomes current and running with its
\* delay-spent counter at 0, and exactly one interval is live.
C4_TurnSwitch ==
    [][\A B \in ChessClockSide :
        (clock.current = B /\ clock.running /\ click(B))
        => /\ clock'.milliseconds[B] = clock.milliseconds[B] + Adjustment(B)
           /\ clock'.milliseconds[Other(B)] = clock.milliseconds[Other(B)]
           /\ clock'.moves = clock.moves + (IF B = "black" THEN 1 ELSE 0)
           /\ clock'.current = Other(B)
           /\ clock'.running = TRUE
           /\ delaySpent'[Other(B)] = 0
           /\ Cardinality(intervals') = 1]_vars

\* Black, on move under Bronstein, has pressed after one tick of delay.
C4_Witness ==
    /\ clock.delayType = "bronstein"
    /\ clock.running
    /\ clock.current = "white"
    /\ clock.moves = 1
    /\ clock.milliseconds.black = ONE_MINUTE + ONE_UNIT
    /\ delaySpent.white = 0
    /\ turn.ticks = 0
    /\ Cardinality(intervals) = 1

\* C5: a press, tick, pause or resume changes moves by one exactly when it
\* changes current from black to white, and not at all otherwise (so moves
\* counts the completed black turns since the last reset).
C5_MovesCountBlackTurns ==
    [][(ClickButton \/ Tick \/ PauseOrResume)
       => clock'.moves = clock.moves +
            (IF clock.current = "black" /\ clock'.current = "white"
             THEN 1 ELSE 0)]_vars

\* C6: a tick that finds S current and would bring S to zero or below sets
\* S to 0, stops the clock, clears current, flags S, and leaves the other
\* side and moves alone.
C6_TimeoutTransition ==
    [][\A S \in ChessClockSide :
        (/\ clock.current = S
         /\ clock.milliseconds[S] - deduction(clock, delaySpent) <= 0
         /\ Tick)
        => /\ clock'.milliseconds[S] = 0
           /\ clock'.running = FALSE
           /\ clock'.current = NoSide
           /\ clock'.timeout = S
           /\ clock'.milliseconds[Other(S)] = clock.milliseconds[Other(S)]
           /\ clock'.moves = clock.moves]_vars

\* Black has timed out during its Bronstein delay with nothing left.
C6_Witness ==
    /\ clock.timeout = "black"
    /\ clock.delayType = "bronstein"
    /\ clock.delay = 1
    /\ delaySpent.black = ONE_UNIT
    /\ clock.milliseconds.black = 0
    /\ clock.milliseconds.white = ONE_MINUTE
    /\ ~clock.running
    /\ clock.current = NoSide

\* C7: both sides' remaining milliseconds are never negative.
C7_RemainingNonNegative ==
    \A S \in ChessClockSide : clock.milliseconds[S] >= 0

\* White has been clamped to zero by a tick that deducted a full unit.
C7_Witness ==
    /\ clock.timeout = "white"
    /\ clock.delayType = "none"
    /\ clock.milliseconds.white = 0
    /\ turn = NoTurn

\* C8 (as stated): either stopped with no side current, or running with a
\* side current.
C8_RunningIffCurrent ==
    \/ clock.running = FALSE /\ clock.current = NoSide
    \/ clock.running = TRUE /\ clock.current \in ChessClockSide

\* C8 (amended): either stopped with no side current, or running with a side
\* current, or paused: stopped with a side current and no side timed out.
C8_RunningImpliesCurrent ==
    \/ clock.running = FALSE /\ clock.current = NoSide
    \/ clock.running = TRUE /\ clock.current \in ChessClockSide
    \/ /\ clock.running = FALSE
       /\ clock.current \in ChessClockSide
       /\ clock.timeout = NoSide

\* White's clock has been paused.
C8_Witness ==
    /\ clock.running = FALSE
    /\ clock.current = "white"
    /\ intervals = {}
    /\ nextHandle = 1

\* C9: at most one interval is live.
C9_SingleTickDriver == Cardinality(intervals) <= 1

\* A second press has replaced the interval of the first.
C9_Witness ==
    /\ nextHandle = 2
    /\ intervals = {[id |-> 2, timer |-> 1]}
    /\ clock.running

\* C10: reset yields the parsed values of the time control tokens, no moves,
\* no timeout, no side current and a stopped clock, and keeps the delay type,
\* the delay and the tokens.
C10_ResetResult ==
    [][reset
       => /\ \A S \in ChessClockSide :
                LET parsed == convert(clock.timeControl[S])
                IN  /\ clock'.milliseconds[S] = parsed.milliseconds
                    /\ clock'.increment[S] = parsed.increment
          /\ clock'.moves = 0
          /\ clock'.timeout = NoSide
          /\ clock'.current = NoSide
          /\ clock'.running = FALSE
          /\ clock'.delayType = clock.delayType
          /\ clock'.delay = clock.delay
          /\ clock'.timeControl = clock.timeControl]_vars

\* A game played with the 1+0 preset and custom settings has been reset.
C10_Witness ==
    /\ nextHandle > 0
    /\ clock.current = NoSide
    /\ clock.timeout = NoSide
    /\ clock.timeControl.white = <<"1","+","0">>
    /\ clock.milliseconds = [white |-> ONE_MINUTE, black |-> ONE_MINUTE]
    /\ clock.increment = [white |-> 0, black |-> 0]
    /\ clock.delayType = "fischer"
    /\ clock.delay = 1
    /\ clock.moves = 0

\* C11 (as stated): reset leaves no interval live (none is created before the
\* next press, so none is live until then).
C11_ResetCancelsDriver == [][reset => intervals' = {}]_vars

\* The clock is paused: stopped with a side current and no side timed out.
IsPaused ==
    /\ ~clock.running
    /\ clock.current # NoSide
    /\ clock.timeout = NoSide

\* C12: pausing a running clock stops it, leaves no interval live and leaves
\* current, both remaining times, moves and timeout unchanged; a tick that
\* fires while the clock is paused changes neither remaining time.
C12_PauseFrame ==
    [][/\ (clock.running /\ clock.timeout = NoSide /\ PauseResumeButton)
          => /\ clock'.running = FALSE
             /\ intervals' = {}
             /\ clock'.current = clock.current
             /\ clock'.milliseconds = clock.milliseconds
             /\ clock'.moves = clock.moves
             /\ clock'.timeout = clock.timeout
       /\ (IsPaused /\ Tick)
          => clock'.milliseconds = clock.milliseconds]_vars

\* Black's clock has been paused after a tick of its turn.
C12_Witness ==
    /\ IsPaused
    /\ clock.current = "black"
    /\ paused.current = "black"
    /\ clock.milliseconds.black = ONE_MINUTE - ONE_UNIT
    /\ intervals = {}
    /\ timer = 1

C14_AdjustmentOnlyForSideOnMove ==
    [][\A S \in ChessClockSide :
        (clock.current = Other(S) /\ click(S))
        => /\ clock'.milliseconds = clock.milliseconds
           /\ clock'.moves = clock.moves]_vars

\* C15 (as stated): a Bronstein tick that finds S current adds 10 to S's
\* delay-spent and leaves S's remaining time alone while the delay-spent is
\* below delay*1000, and otherwise takes 10 from S's remaining time and
\* leaves the delay-spent alone; a step that keeps the delay keeps a
\* delay-spent that is within delay*1000 within it.
C15_BronsteinTick ==
    [][\A S \in ChessClockSide :
        /\ (clock.current = S /\ clock.delayType = "bronstein" /\ Tick)
           => IF delaySpent[S] < clock.delay * ONE_SECOND
              THEN /\ delaySpent'[S] = delaySpent[S] + ONE_UNIT
                   /\ clock'.milliseconds[S] = clock.milliseconds[S]
              ELSE /\ clock'.milliseconds[S] = clock.milliseconds[S] - ONE_UNIT
                   /\ delaySpent'[S] = delaySpent[S]
        /\ (/\ delaySpent[S] <= clock.delay * ONE_SECOND
            /\ clock'.delay = clock.delay)
           => delaySpent'[S] <= clock'.delay * ONE_SECOND]_vars

\* C15 (amended): as stated, except that a tick outside the delay takes 10
\* from S's remaining time only down to 0: a remaining time that is already
\* 0 stays 0.
C15_BronsteinTickClamped ==
    [][\A S \in ChessClockSide :
        /\ (clock.current = S /\ clock.delayType = "bronstein" /\ Tick)
           => IF delaySpent[S] < clock.delay * ONE_SECOND
              THEN /\ delaySpent'[S] = delaySpent[S] + ONE_UNIT
                   /\ clock'.milliseconds[S] = clock.milliseconds[S]
              ELSE /\ clock'.milliseconds[S] =
                        (IF clock.milliseconds[S] >= ONE_UNIT
                         THEN clock.milliseconds[S] - ONE_UNIT ELSE 0)
                   /\ delaySpent'[S] = delaySpent[S]
        /\ (/\ delaySpent[S] <= clock.delay * ONE_SECOND
            /\ clock'.delay = clock.delay)
           => delaySpent'[S] <= clock'.delay * ONE_SECOND]_vars

\* White's Bronstein turn has seen one tick of its one-second delay.
C15_Witness ==
    /\ clock.delayType = "bronstein"
    /\ clock.delay = 1
    /\ clock.running
    /\ clock.current = "white"
    /\ delaySpent.white = ONE_UNIT
    /\ clock.milliseconds.white = ONE_MINUTE
    /\ turn.ticks = 1

\* C16 (as stated): the tick that makes a side time out leaves no interval
\* live.
C16_TimeoutStopsDriver ==
    [][(/\ clock.current # NoSide
        /\ timesOut(clock, delaySpent)
        /\ Tick)
       => intervals' = {}]_vars

\* C17 (as stated): right after a resume that directly followed a pause, both
\* remaining times, moves and the side on move are what they were when the
\* clock was paused.
C17_PauseResumeRoundTrip ==
    paused.resumed
    => /\ clock.milliseconds = paused.milliseconds
       /\ clock.moves = paused.moves
       /\ clock.current = paused.current

\* C18 (as stated): when the game started with S on values that differ from
\* the parsed token of S (which only the custom inputs produce) and no
\* setting was edited since, reset gives S the remaining time and the
\* increment the game started with.
C18_ResetRestoresCustomValues ==
    [][\A S \in ChessClockSide :
        (/\ game.played
         /\ ~game.edited
         /\ \/ game.milliseconds[S] # convert(clock.timeControl[S]).milliseconds
            \/ game.increment[S] # convert(clock.timeControl[S]).increment
         /\ reset)
        => /\ clock'.milliseconds[S] = game.milliseconds[S]
           /\ clock'.increment[S] = game.increment[S]]_vars

(* ---------------- A running clock left to its ticks ---------------- *)

\* The states right after the first press of S's opponent on a clock set to
\* the 1+0 preset, with any delay type, a delay and custom minutes for S.
LiveInit ==
    \E S \in ChessClockSide, dt \in DelayType,
       d \in DelayInputs, m \in MinutesInputs :
        LET p == [selectPreset(initial, PRESETS.Bullet[1])
                    EXCEPT !.delayType = dt,
                           !.delay = d,
                           !.milliseconds[S] = m * ONE_MINUTE]
        IN  /\ clock = switchTo(p, S)
            /\ delaySpent = startTurn([white |-> 0, black |-> 0], S)
            /\ intervals = restartTimer({}, 0, 1)
            /\ timer = 1
            /\ nextHandle = 1
            /\ edits = 0
            /\ turn = [start |-> p.milliseconds[S], ticks |-> 0]
            /\ paused = NoPause
            /\ game = [played |-> TRUE, edited |-> FALSE,
                       milliseconds |-> p.milliseconds,
                       increment |-> p.increment]
            /\ display = NoDisplay

\* A live interval fires, however many times it has fired before.
LiveTick == \E i \in intervals : IntervalCallback(i)

\* setInterval keeps firing the callback of an interval that is not cleared.
LiveSpec == LiveInit /\ [][LiveTick]_vars /\ WF_vars(LiveTick)

\* C19: when S is current and running and only ticks follow, S eventually
\* times out: timeout = S, remaining[S] = 0, running = false.
C19_EventualTimeout ==
    \A S \in ChessClockSide :
        (clock.current = S /\ clock.running)
        ~> (/\ clock.timeout = S
            /\ clock.milliseconds[S] = 0
            /\ clock.running = FALSE)

\* White started with one minute under a one-second Bronstein delay, used
\* the whole delay and ran out of time.
C19_Witness ==
    /\ clock.timeout = "white"
    /\ clock.milliseconds.white = 0
    /\ clock.running = FALSE
    /\ game.milliseconds.white = ONE_MINUTE
    /\ clock.delayType = "bronstein"
    /\ delaySpent.white = ONE_SECOND

(* ---------------- The rendered remaining time ---------------- *)

\* A remaining time is about to be rendered.
FormatInit ==
    /\ clock = initial
    /\ timer = 0
    /\ delaySpent = [white |-> 0, black |-> 0]
    /\ intervals = {}
    /\ nextHandle = 0
    /\ edits = 0
    /\ turn = NoTurn
    /\ paused = NoPause
    /\ game = NoGame
    /\ \E ms \in FormatInputs : display = [ms |-> ms, text |-> <<>>]

\* The page renders the remaining time.
Render ==
    /\ display.text = <<>>
    /\ display' = [display EXCEPT !.text = format(display.ms)]
    /\ UNCHANGED <<clock, timer, delaySpent, intervals, nextHandle, edits,
                   turn, paused, game>>

FormatSpec == FormatInit /\ [][Render]_vars

\* The text the claim gives for a remaining time: two digits of minutes,
\* two digits of seconds and one digit of tenths, all rounded down.
Truncated(ms) ==
    LET pad(n) == IF n < 10 THEN <<"0">> \o numberToString(n)
                  ELSE numberToString(n)
    IN  pad(ms \div ONE_MINUTE) \o <<":">>
            \o pad((ms % ONE_MINUTE) \div ONE_SECOND) \o <<".">>
            \o numberToString((ms % ONE_SECOND) \div 100)

\* C20 (as stated): the rendered text shows floor(ms/60000) minutes,
\* floor((ms mod 60000)/1000) seconds, which are below 60, and
\* floor((ms mod 1000)/100) tenths; 0 renders as 00:00.0 and 600000 as
\* 10:00.0.
C20_FormatTruncates ==
    display.text # <<>>
    => /\ display.text = Truncated(display.ms)
       /\ parseInt(SubSeq(display.text, Len(display.text) - 3,
                          Len(display.text) - 2)) < 60
       /\ display.ms = 0
          => display.text = <<"0","0",":","0","0",".","0">>
       /\ display.ms = 10 * ONE_MINUTE
          => display.text = <<"1","0",":","0","0",".","0">>

====
